---- MODULE Spec2Model ----
(***************************************************************************)
(* Model of the cycling-viz data pipeline (data-processing/*.py): Track    *)
(* Parser, Track Enricher and Photo Matcher, and of the batch run that     *)
(* turns activity files and candidate photos into the rides of rides.json. *)
(*                                                                         *)
(* Units: coordinates are cells of a grid of CellMeters metres, distances  *)
(* are whole metres, timestamps are whole hours, speed is metres per hour  *)
(* (km/h x 1000).  Route indices are 0-based as in the emitted JSON; TLA+   *)
(* sequences are 1-based, so route index r is route[r + 1].                *)
(***************************************************************************)
EXTENDS Integers, Sequences, FiniteSets, TLC

VARIABLES files, photos, pos, stage, track, route, matched, rides, failures

(***************************************************************************)
(* The state of the front-end (App): its useState values, the request for  *)
(* rides.json, the playback interval, the effect dependencies changed by   *)
(* the last render, and the last event handled (a user event or a tick of  *)
(* the interval).  rides is both the payload the batch run emits and the   *)
(* App's rides state once it is fetched.                                   *)
(***************************************************************************)
VARIABLES loading, selectedRide, currentRouteIndex, selectedMetric,
          selectedPhoto, isPlaying, viewMode, fetchState, fetchCount,
          timer, dirty, lastEvent

(***************************************************************************)
(* What the mounted map shows: the layers and markers of the last render   *)
(* of MapView or Dashboard, and the bounds last handed to fitBounds.       *)
(***************************************************************************)
VARIABLES drawn, bounds

mapVars == <<drawn, bounds>>

appVars == <<loading, selectedRide, currentRouteIndex, selectedMetric,
             selectedPhoto, isPlaying, viewMode, fetchState, fetchCount,
             timer, dirty, lastEvent>>

vars == <<files, photos, pos, stage, track, route, matched, rides, failures,
          loading, selectedRide, currentRouteIndex, selectedMetric,
          selectedPhoto, isPlaying, viewMode, fetchState, fetchCount,
          timer, dirty, lastEvent, drawn, bounds>>

(***************************************************************************)
(* Bounds of the model.                                                    *)
(***************************************************************************)
MaxPts == 3
MaxFiles == 2
MaxPhotos == 2

Lats == 0..3
Lons == {0}
RideTimes == {3, 4}
PhotoTimes == 0..7

(***************************************************************************)
(* Optional values: an absent field is the empty sequence, a present one a *)
(* one-element sequence, so that a present 0 differs from an absent value. *)
(***************************************************************************)
Absent == <<>>

Some(v) == <<v>>

\* No map is mounted: nothing is drawn and fitBounds was never called.
MapNotDrawn ==
    /\ drawn = [view |-> "none", layers |-> <<>>, position |-> Absent,
                photoMarkers |-> <<>>]
    /\ bounds = Absent

(***************************************************************************)
(* The front-end before it is mounted: the initial useState values, no     *)
(* request, no interval.                                                   *)
(***************************************************************************)
AppNotMounted ==
    /\ loading = TRUE
    /\ selectedRide = Absent
    /\ currentRouteIndex = 0
    /\ selectedMetric = "speed"
    /\ selectedPhoto = Absent
    /\ isPlaying = FALSE
    /\ viewMode = "dashboard"
    /\ fetchState = "none"
    /\ fetchCount = 0
    /\ timer = Absent
    /\ dirty = {}
    /\ lastEvent = "none"
    /\ MapNotDrawn

Abs(x) == IF x < 0 THEN 0 - x ELSE x

Max2(a, b) == IF a >= b THEN a ELSE b

(***************************************************************************)
(* Great-circle distance in metres between two fixes, on the grid: the     *)
(* rounded-down Euclidean length of the cell offset.                       *)
(***************************************************************************)
CellMeters == 50

Haversine(a, b) ==
    LET dlat == Abs(a.lat - b.lat)
        dlon == Abs(a.lon - b.lon)
        sq == (dlat * dlat + dlon * dlon) * CellMeters * CellMeters
    IN  CHOOSE r \in (CellMeters * Max2(dlat, dlon))..(CellMeters * (dlat + dlon)) :
            r * r <= sq /\ (r + 1) * (r + 1) > sq

(***************************************************************************)
(* Track Parser.  A raw record carries the fields of a fix and whether it  *)
(* was read whole; a record cut short, or one whose timestamp is earlier   *)
(* than its predecessor's, fails the file.                                 *)
(***************************************************************************)
BadRecord(records, i) ==
    \/ ~records[i].whole
    \/ i > 1 /\ records[i].time < records[i - 1].time

FirstBadRecord(records) ==
    IF \E i \in 1..Len(records) : BadRecord(records, i)
    THEN CHOOSE i \in 1..Len(records) :
            /\ BadRecord(records, i)
            /\ \A j \in 1..(i - 1) : ~BadRecord(records, j)
    ELSE 0

ParseRecord(rec) ==
    [lat |-> rec.lat, lon |-> rec.lon, ele |-> rec.ele, time |-> rec.time,
     hr |-> rec.hr, power |-> rec.power]

ParseTrack(records) == [i \in 1..Len(records) |-> ParseRecord(records[i])]

(***************************************************************************)
(* Track Enricher.                                                         *)
(***************************************************************************)
GradientEpsilon == 1

SegmentDistanceOnly(points, i) ==
    IF i <= 1 THEN 0 ELSE Haversine(points[i - 1], points[i])

RECURSIVE CumulativeDistance(_, _)
CumulativeDistance(points, i) ==
    IF i <= 1 THEN 0
    ELSE CumulativeDistance(points, i - 1) + Haversine(points[i - 1], points[i])

SpeedAtUnsignedDelta(points, i) ==
    IF i <= 1 THEN 0
    ELSE LET dt == Abs(points[i].time - points[i - 1].time)
         IN  IF dt = 0 THEN 0
             ELSE Haversine(points[i - 1], points[i]) \div dt

SpeedAt(points, i) ==
    IF i <= 1 THEN 0
    ELSE LET dt == points[i].time - points[i - 1].time
         IN  IF dt <= 0 THEN 0
             ELSE Haversine(points[i - 1], points[i]) \div dt

GradientAt(points, i) ==
    IF i <= 1 THEN 0
    ELSE LET run == Haversine(points[i - 1], points[i])
         IN  IF run < GradientEpsilon THEN 0
             ELSE ((points[i].ele - points[i - 1].ele) * 100) \div run

EnrichTrack(points) ==
    [i \in 1..Len(points) |->
        [lat |-> points[i].lat, lon |-> points[i].lon, ele |-> points[i].ele,
         time |-> points[i].time, hr |-> points[i].hr, power |-> points[i].power,
         speed |-> SpeedAt(points, i),
         distance |-> CumulativeDistance(points, i),
         gradient |-> GradientAt(points, i)]]

(***************************************************************************)
(* Photo Matcher.                                                          *)
(***************************************************************************)
WindowHours == 2

ProximityMeters == 100

InTimeWindowFromStart(points, photo) ==
    /\ Len(points) > 0
    /\ photo.timestamp # Absent
    /\ photo.timestamp[1] >= points[1].time - WindowHours

InTimeWindow(points, photo) ==
    /\ Len(points) > 0
    /\ photo.timestamp # Absent
    /\ photo.timestamp[1] >= points[1].time - WindowHours
    /\ photo.timestamp[1] <= points[Len(points)].time + WindowHours

Closer(d, bestD) == d < bestD

WithinProximity(d) == d <= ProximityMeters

RECURSIVE NearestByGpsLatest(_, _, _, _)
NearestByGpsLatest(points, loc, i, best) ==
    IF i > Len(points) THEN best
    ELSE NearestByGpsLatest(points, loc, i + 1,
            IF Haversine(points[i], loc) <= Haversine(points[best], loc)
            THEN i ELSE best)

RECURSIVE NearestByGps(_, _, _, _)
NearestByGps(points, loc, i, best) ==
    IF i > Len(points) THEN best
    ELSE NearestByGps(points, loc, i + 1,
            IF Closer(Haversine(points[i], loc), Haversine(points[best], loc))
            THEN i ELSE best)

RECURSIVE NearestByTime(_, _, _, _)
NearestByTime(points, t, i, best) ==
    IF i > Len(points) THEN best
    ELSE NearestByTime(points, t, i + 1,
            IF Closer(Abs(points[i].time - t), Abs(points[best].time - t))
            THEN i ELSE best)

GpsMatches(points, photo) ==
    /\ photo.location # Absent
    /\ WithinProximity(Haversine(points[NearestByGps(points, photo.location[1], 1, 1)],
                                 photo.location[1]))

MatchIndexByTimeOnly(points, photo) ==
    NearestByTime(points, photo.timestamp[1], 1, 1)

MatchIndex(points, photo) ==
    IF GpsMatches(points, photo)
    THEN NearestByGps(points, photo.location[1], 1, 1)
    ELSE NearestByTime(points, photo.timestamp[1], 1, 1)

SnapshotStatsZeroDefault(point) ==
    [speed |-> point.speed, elevation |-> point.ele, distance |-> point.distance,
     hr |-> IF point.hr = Absent THEN Some(0) ELSE point.hr,
     power |-> IF point.power = Absent THEN Some(0) ELSE point.power]

SnapshotStats(point) ==
    [speed |-> point.speed, elevation |-> point.ele, distance |-> point.distance,
     hr |-> point.hr, power |-> point.power]

EligibleWithoutFallback(points, photo) ==
    /\ InTimeWindow(points, photo)
    /\ photo.location = Absent \/ GpsMatches(points, photo)

Eligible(points, photo) == InTimeWindow(points, photo)

MatchPhoto(points, photo) ==
    LET idx == MatchIndex(points, photo)
    IN  [filename |-> photo.filename, timestamp |-> photo.timestamp[1],
         location |-> photo.location, routeIndex |-> idx - 1,
         stats |-> SnapshotStats(points[idx])]

RECURSIVE MatchEach(_, _, _)
MatchEach(points, cands, i) ==
    IF i > Len(cands) THEN <<>>
    ELSE (IF Eligible(points, cands[i])
          THEN <<MatchPhoto(points, cands[i])>> ELSE <<>>)
         \o MatchEach(points, cands, i + 1)

InsertAtEnd(sorted, p) == Append(sorted, p)

InsertByRouteIndex(sorted, p) ==
    LET k == Cardinality({j \in 1..Len(sorted) : sorted[j].routeIndex <= p.routeIndex})
    IN  SubSeq(sorted, 1, k) \o <<p>> \o SubSeq(sorted, k + 1, Len(sorted))

SortByRouteIndexDescending(list, n) ==
    LET asc[k \in 0..n] ==
            IF k = 0 THEN <<>> ELSE InsertByRouteIndex(asc[k - 1], list[k])
    IN  [k \in 1..n |-> asc[n][n + 1 - k]]

RECURSIVE SortByRouteIndex(_, _)
SortByRouteIndex(list, n) ==
    IF n = 0 THEN <<>>
    ELSE InsertByRouteIndex(SortByRouteIndex(list, n - 1), list[n])

MatchPhotos(points, cands) ==
    LET found == MatchEach(points, cands, 1)
    IN  SortByRouteIndex(found, Len(found))

(***************************************************************************)
(* The batch run.  Each activity file is parsed, enriched and matched      *)
(* against the candidate photos in turn; a file that fails to parse is     *)
(* reported and skipped.                                                   *)
(***************************************************************************)
ParseFile ==
    /\ stage = "idle"
    /\ pos <= Len(files)
    /\ FirstBadRecord(files[pos].records) = 0
    /\ track' = ParseTrack(files[pos].records)
    /\ stage' = "parsed"
    /\ UNCHANGED <<files, photos, pos, route, matched, rides, failures>>
    /\ UNCHANGED appVars
    /\ UNCHANGED mapVars

ReportFailureAndAbort ==
    /\ stage = "idle"
    /\ pos <= Len(files)
    /\ FirstBadRecord(files[pos].records) # 0
    /\ failures' = Append(failures, [file |-> files[pos].name,
                                     record |-> FirstBadRecord(files[pos].records)])
    /\ pos' = Len(files) + 1
    /\ UNCHANGED <<files, photos, stage, track, route, matched, rides>>
    /\ UNCHANGED appVars
    /\ UNCHANGED mapVars

ReportFailure ==
    /\ stage = "idle"
    /\ pos <= Len(files)
    /\ FirstBadRecord(files[pos].records) # 0
    /\ failures' = Append(failures, [file |-> files[pos].name,
                                     record |-> FirstBadRecord(files[pos].records)])
    /\ pos' = pos + 1
    /\ UNCHANGED <<files, photos, stage, track, route, matched, rides>>
    /\ UNCHANGED appVars
    /\ UNCHANGED mapVars

Enrich ==
    /\ stage = "parsed"
    /\ route' = EnrichTrack(track)
    /\ stage' = "enriched"
    /\ UNCHANGED <<files, photos, pos, track, matched, rides, failures>>
    /\ UNCHANGED appVars
    /\ UNCHANGED mapVars

Match ==
    /\ stage = "enriched"
    /\ matched' = MatchPhotos(route, photos)
    /\ stage' = "matched"
    /\ UNCHANGED <<files, photos, pos, track, route, rides, failures>>
    /\ UNCHANGED appVars
    /\ UNCHANGED mapVars

EmitRide ==
    /\ stage = "matched"
    /\ pos <= Len(files)
    /\ rides' = Append(rides, [id |-> files[pos].name, route |-> route,
                               photos |-> matched])
    /\ pos' = pos + 1
    /\ stage' = "idle"
    /\ UNCHANGED <<files, photos, track, route, matched, failures>>
    /\ UNCHANGED appVars
    /\ UNCHANGED mapVars

(***************************************************************************)
(* Inputs.  A fix's elevation is the terrain height of its cell; a ride's  *)
(* sensors decide which fixes carry heart rate and power.                  *)
(***************************************************************************)
Coords == [lat : Lats, lon : Lons]

Terrain(c) == 10 * c.lat + 5 * c.lon

Sensors == {"none", "hr+power", "dropout"}

SensorHr(sensors, i) ==
    IF sensors = "none" \/ (sensors = "dropout" /\ i % 2 = 0)
    THEN Absent ELSE Some(120 + 10 * i)

SensorPower(sensors, i) ==
    IF sensors = "hr+power" THEN Some(100 * (i - 1)) ELSE Absent

Fix(c, t, sensors, i) ==
    [lat |-> c.lat, lon |-> c.lon, ele |-> Terrain(c), time |-> t,
     hr |-> SensorHr(sensors, i), power |-> SensorPower(sensors, i)]

TracksOfLength(n) ==
    {[i \in 1..n |-> Fix(cs[i], ts[i], s, i)] :
        cs \in [1..n -> Coords], ts \in [1..n -> RideTimes], s \in Sensors}

AnyTracks == UNION {TracksOfLength(n) : n \in 0..MaxPts}

ParsedTracks ==
    {t \in UNION {TracksOfLength(n) : n \in 1..MaxPts} :
        \A i \in 1..(Len(t) - 1) : t[i].time <= t[i + 1].time}

PhotoInputs ==
    [filename : {"solo.jpg"},
     timestamp : {Absent} \cup {Some(t) : t \in PhotoTimes},
     location : {Absent} \cup {Some(c) : c \in Coords}]

At(la, lo) == [lat |-> la, lon |-> lo]

PhotoPool ==
    { [filename |-> "a.jpg", timestamp |-> Some(3), location |-> Absent],
      [filename |-> "b.jpg", timestamp |-> Some(4), location |-> Some(At(1, 0))],
      [filename |-> "c.jpg", timestamp |-> Some(4), location |-> Absent],
      [filename |-> "d.jpg", timestamp |-> Some(7), location |-> Some(At(0, 0))] }

SeqsWithoutRepeats(S, n) ==
    {s \in UNION {[1..k -> S] : k \in 0..n} :
        \A i, j \in 1..Len(s) : i # j => s[i] # s[j]}

PhotoLists == SeqsWithoutRepeats(PhotoPool, MaxPhotos)

Rec(la, t, sensors, i, whole) ==
    [lat |-> la, lon |-> 0, ele |-> Terrain(At(la, 0)), time |-> t,
     hr |-> SensorHr(sensors, i), power |-> SensorPower(sensors, i),
     whole |-> whole]

FilePool ==
    { [name |-> "coast.fit",
       records |-> <<Rec(0, 3, "hr+power", 1, TRUE), Rec(1, 3, "hr+power", 2, TRUE),
                     Rec(3, 4, "hr+power", 3, TRUE)>>],
      [name |-> "loop.fit",
       records |-> <<Rec(1, 3, "dropout", 1, TRUE), Rec(2, 4, "dropout", 2, TRUE),
                     Rec(1, 4, "dropout", 3, TRUE)>>],
      [name |-> "late.fit",
       records |-> <<Rec(0, 9, "none", 1, TRUE), Rec(2, 10, "none", 2, TRUE)>>],
      [name |-> "truncated.fit",
       records |-> <<Rec(0, 3, "none", 1, TRUE), Rec(1, 4, "none", 2, FALSE)>>],
      [name |-> "shuffled.fit",
       records |-> <<Rec(0, 4, "none", 1, TRUE), Rec(1, 3, "none", 2, TRUE)>>] }

Batches == SeqsWithoutRepeats(FilePool, MaxFiles)

(***************************************************************************)
(* The batch run over a batch of activity files and a list of photos.      *)
(***************************************************************************)
Init ==
    /\ files \in Batches
    /\ photos \in PhotoLists
    /\ pos = 1
    /\ stage = "idle"
    /\ track = <<>> /\ route = <<>> /\ matched = <<>>
    /\ rides = <<>> /\ failures = <<>>
    /\ AppNotMounted

Next ==
    \/ ParseFile
    \/ ReportFailure
    \/ Enrich
    \/ Match
    \/ EmitRide

Spec == Init /\ [][Next]_vars

(***************************************************************************)
(* The Track Enricher applied to any sequence of fixes.                    *)
(***************************************************************************)
EnricherInit ==
    /\ track \in AnyTracks
    /\ stage = "parsed"
    /\ files = <<>> /\ photos = <<>> /\ pos = 1
    /\ route = <<>> /\ matched = <<>> /\ rides = <<>> /\ failures = <<>>
    /\ AppNotMounted

EnricherNext == Enrich

EnricherSpec == EnricherInit /\ [][EnricherNext]_vars

(***************************************************************************)
(* The Photo Matcher applied to any enriched track, with one candidate     *)
(* photo of any kind or with a list of photos.                             *)
(***************************************************************************)
MatcherInit ==
    /\ track \in ParsedTracks
    /\ route = EnrichTrack(track)
    /\ photos \in PhotoLists \cup {<<p>> : p \in PhotoInputs}
    /\ stage = "enriched"
    /\ files = <<>> /\ pos = 1
    /\ matched = <<>> /\ rides = <<>> /\ failures = <<>>
    /\ AppNotMounted

MatcherNext == Match

MatcherSpec == MatcherInit /\ [][MatcherNext]_vars

(***************************************************************************)
(* Properties.                                                             *)
(***************************************************************************)
SameCoordinate(a, b) == a.lat = b.lat /\ a.lon = b.lon

MinGpsDistance(points, loc) ==
    CHOOSE d \in {Haversine(points[i], loc) : i \in 1..Len(points)} :
        \A i \in 1..Len(points) : d <= Haversine(points[i], loc)

BeforeWindow(points, photo) ==
    photo.timestamp # Absent /\ photo.timestamp[1] < points[1].time - WindowHours

AfterWindow(points, photo) ==
    photo.timestamp # Absent
    /\ photo.timestamp[1] > points[Len(points)].time + WindowHours

Emitted(photo) == \E j \in 1..Len(matched) : matched[j].filename = photo.filename

\* C1: a photo taken more than 2 hours before the ride's first trackpoint or
\* more than 2 hours after its last one is not in the ride's photo set,
\* wherever its GPS coordinate lies.
C1_TimestampGate ==
    stage = "matched" =>
        \A i \in 1..Len(photos) :
            (BeforeWindow(route, photos[i]) \/ AfterWindow(route, photos[i]))
                => ~Emitted(photos[i])

\* C1 witness: a matcher run with a photo taken 3 hours after the ride's end
\* whose GPS coordinate is a trackpoint's coordinate.
C1_Witness ==
    /\ stage = "matched"
    /\ \E i \in 1..Len(photos) :
        /\ photos[i].timestamp = Some(route[Len(route)].time + WindowHours + 1)
        /\ photos[i].location # Absent
        /\ \E k \in 1..Len(route) : SameCoordinate(route[k], photos[i].location[1])

\* C2: a matched photo with GPS whose least distance to the route is at most
\* 100 m has as routeIndex the smallest index attaining that least distance.
C2_GpsNearestEarliest ==
    stage = "matched" =>
        \A j \in 1..Len(matched) :
            LET m == matched[j] IN
            (m.location # Absent
             /\ MinGpsDistance(route, m.location[1]) <= ProximityMeters)
            => /\ Haversine(route[m.routeIndex + 1], m.location[1])
                    = MinGpsDistance(route, m.location[1])
               /\ \A k \in 1..m.routeIndex :
                    Haversine(route[k], m.location[1])
                        > MinGpsDistance(route, m.location[1])

\* C2 witness: a matched photo exactly 100 m from its two nearest trackpoints,
\* neither of which is the first trackpoint.
C2_Witness ==
    /\ stage = "matched"
    /\ \E j \in 1..Len(matched) :
        /\ matched[j].location # Absent
        /\ Len(route) >= 3
        /\ MinGpsDistance(route, matched[j].location[1]) = ProximityMeters
        /\ matched[j].routeIndex = 1
        /\ Haversine(route[3], matched[j].location[1]) = ProximityMeters

\* C3: every candidate photo with a timestamp inside the window appears
\* exactly once in the photo set; without GPS, or with the nearest trackpoint
\* farther than 100 m, its routeIndex is that of a trackpoint closest in time;
\* and every emitted photo has a routeIndex that is an index of the route.
C3_FallbackTotal ==
    stage = "matched" =>
        /\ \A i \in 1..Len(photos) :
            (photos[i].timestamp # Absent
             /\ ~BeforeWindow(route, photos[i]) /\ ~AfterWindow(route, photos[i]))
            => Cardinality({j \in 1..Len(matched) :
                                matched[j].filename = photos[i].filename}) = 1
        /\ \A j \in 1..Len(matched) :
            LET m == matched[j] IN
            /\ m.routeIndex \in 0..(Len(route) - 1)
            /\ (m.location = Absent
                \/ MinGpsDistance(route, m.location[1]) > ProximityMeters)
               => \A k \in 1..Len(route) :
                    Abs(route[m.routeIndex + 1].time - m.timestamp)
                        <= Abs(route[k].time - m.timestamp)

\* C3 witness: a photo whose GPS is farther than 100 m from every trackpoint is
\* emitted with the index of the trackpoint closest in time, which is not the
\* first of the trackpoints closest in space.
C3_Witness ==
    /\ stage = "matched"
    /\ \E j \in 1..Len(matched) :
        /\ matched[j].location # Absent
        /\ MinGpsDistance(route, matched[j].location[1]) > ProximityMeters
        /\ matched[j].routeIndex > 0
        /\ \E k \in 1..Len(route) :
                Abs(route[k].time - matched[j].timestamp)
                    > Abs(route[matched[j].routeIndex + 1].time - matched[j].timestamp)

\* C4: in every emitted ride the photos are sorted ascending by routeIndex and
\* every routeIndex is an index of the ride's route.
C4_PhotosSorted ==
    \A r \in 1..Len(rides) :
        /\ \A i \in 1..(Len(rides[r].photos) - 1) :
            rides[r].photos[i].routeIndex <= rides[r].photos[i + 1].routeIndex
        /\ \A i \in 1..Len(rides[r].photos) :
            /\ rides[r].photos[i].routeIndex >= 0
            /\ rides[r].photos[i].routeIndex < Len(rides[r].route)

\* C4 witness: an emitted ride whose first two photos have increasing
\* routeIndex although they were supplied in the opposite order.
C4_Witness ==
    \E r \in 1..Len(rides) :
        /\ Len(rides[r].photos) >= 2
        /\ rides[r].photos[1].routeIndex < rides[r].photos[2].routeIndex
        /\ \E a, b \in 1..Len(photos) :
            /\ a < b
            /\ photos[a].filename = rides[r].photos[2].filename
            /\ photos[b].filename = rides[r].photos[1].filename

\* C5: the stats of every emitted photo are the speed, elevation, distance,
\* heart rate and power of the trackpoint at its routeIndex; heart rate and
\* power are absent, not 0 or -1, when that trackpoint has none.
C5_StatSnapshot ==
    stage = "matched" =>
        \A j \in 1..Len(matched) :
            LET m == matched[j]
                pt == route[m.routeIndex + 1]
            IN  /\ m.stats.speed = pt.speed
                /\ m.stats.elevation = pt.ele
                /\ m.stats.distance = pt.distance
                /\ m.stats.hr = pt.hr
                /\ m.stats.power = pt.power
                /\ pt.hr = Absent => m.stats.hr \notin {Some(0), Some(0 - 1)}
                /\ pt.power = Absent => m.stats.power \notin {Some(0), Some(0 - 1)}

\* C5 witness: a photo matched past the first trackpoint, at a trackpoint
\* without heart rate on a ride whose first trackpoint has heart rate, and
\* whose distance and elevation differ from the first trackpoint's.
C5_Witness ==
    /\ stage = "matched"
    /\ \E j \in 1..Len(matched) :
        /\ matched[j].routeIndex > 0
        /\ route[matched[j].routeIndex + 1].hr = Absent
        /\ route[1].hr # Absent
        /\ matched[j].stats.distance > 0
        /\ matched[j].stats.elevation # route[1].ele

\* C6: the enriched sequence has the length and order of the input, its first
\* distance is 0, and distance never decreases from one point to the next,
\* staying equal only when the two points have the same coordinate.
C6_DistanceMonotone ==
    stage = "enriched" =>
        /\ Len(route) = Len(track)
        /\ \A i \in 1..Len(route) :
            /\ SameCoordinate(route[i], track[i])
            /\ route[i].time = track[i].time /\ route[i].ele = track[i].ele
            /\ route[i].hr = track[i].hr /\ route[i].power = track[i].power
        /\ Len(route) >= 1 => route[1].distance = 0
        /\ \A i \in 2..Len(route) :
            /\ route[i].distance >= route[i - 1].distance
            /\ route[i].distance = route[i - 1].distance
                => SameCoordinate(track[i - 1], track[i])

\* C6 witness: a three-point track that moves away, then part of the way back,
\* enriched.
C6_Witness ==
    /\ stage = "enriched"
    /\ Len(route) = 3
    /\ Haversine(track[1], track[2]) > Haversine(track[2], track[3])
    /\ Haversine(track[2], track[3]) > 0
    /\ route[3].distance > route[2].distance

\* C7: every speed is at least 0, the first point's speed is 0, and a point
\* whose timestamp is equal to or earlier than its predecessor's has speed 0;
\* the enricher produces a point for every input point.
C7_SpeedDegeneracy ==
    stage = "enriched" =>
        /\ Len(route) = Len(track)
        /\ \A i \in 1..Len(route) :
            /\ route[i].speed >= 0
            /\ i = 1 => route[i].speed = 0
            /\ (i > 1 /\ track[i].time <= track[i - 1].time) => route[i].speed = 0

\* C7 witness: an enriched track with a point at a new coordinate whose
\* timestamp is earlier than its predecessor's, one whose timestamp equals its
\* predecessor's, and one that moved in positive time.
C7_Witness ==
    /\ stage = "enriched"
    /\ \E i \in 2..Len(route) :
        track[i].time < track[i - 1].time /\ ~SameCoordinate(track[i], track[i - 1])
    /\ \E i \in 2..Len(route) :
        track[i].time > track[i - 1].time /\ route[i].speed > 0

Malformed(file) ==
    \E k \in 1..Len(file.records) :
        \/ ~file.records[k].whole
        \/ k > 1 /\ file.records[k].time < file.records[k - 1].time

RidesOf(file) == {r \in 1..Len(rides) : rides[r].id = file.name}

\* C8: a malformed file of the batch never yields a ride and, once the run is
\* past it, has a reported failure naming it; every well-formed file the run
\* is past has yielded its ride, with one route point per record.
C8_BatchIsolation ==
    \A i \in 1..Len(files) :
        IF Malformed(files[i])
        THEN /\ RidesOf(files[i]) = {}
             /\ i < pos => \E f \in 1..Len(failures) : failures[f].file = files[i].name
        ELSE /\ \A f \in 1..Len(failures) : failures[f].file # files[i].name
             /\ i < pos =>
                /\ Cardinality(RidesOf(files[i])) = 1
                /\ \A r \in RidesOf(files[i]) :
                    Len(rides[r].route) = Len(files[i].records)

\* C8 witness: a finished run over a malformed file followed by a well-formed
\* one.
C8_Witness ==
    /\ Len(files) >= 2
    /\ pos > Len(files)
    /\ Malformed(files[1])
    /\ ~Malformed(files[2])
    /\ Len(rides) >= 1
    /\ Len(failures) >= 1

Reorderings(list) ==
    {q \in [1..Len(list) -> {list[i] : i \in 1..Len(list)}] :
        \A i \in 1..Len(list) : \E k \in 1..Len(list) : q[k] = list[i]}

C10_MatchesEveryCoincidentIndex ==
    stage = "matched" =>
        \A j \in 1..Len(matched) : \A k \in 1..Len(route) :
            (matched[j].location # Absent
             /\ SameCoordinate(route[k], matched[j].location[1]))
            => matched[j].routeIndex = k - 1

\* C10 amended: a matched photo whose GPS coordinate is the coordinate of
\* trackpoint k has as routeIndex the smallest index whose trackpoint has that
\* coordinate, which is k when no earlier trackpoint shares it.
C10_MatchesEarliestCoincidentIndex ==
    stage = "matched" =>
        \A j \in 1..Len(matched) : \A k \in 1..Len(route) :
            (matched[j].location # Absent
             /\ SameCoordinate(route[k], matched[j].location[1]))
            => /\ matched[j].routeIndex <= k - 1
               /\ SameCoordinate(route[matched[j].routeIndex + 1], matched[j].location[1])
               /\ \A e \in 1..matched[j].routeIndex :
                    ~SameCoordinate(route[e], matched[j].location[1])
               /\ (\A e \in 1..(k - 1) : ~SameCoordinate(route[e], route[k]))
                    => matched[j].routeIndex = k - 1

\* C10 witness: a photo at the coordinate of the last trackpoint, which no
\* earlier trackpoint shares, taken at the time of the first trackpoint and
\* matched to the last.
C10_Witness ==
    /\ stage = "matched"
    /\ Len(route) >= 2
    /\ route[1].time < route[Len(route)].time
    /\ \E j \in 1..Len(matched) :
        /\ matched[j].location # Absent
        /\ matched[j].timestamp = route[1].time
        /\ SameCoordinate(route[Len(route)], matched[j].location[1])
        /\ \A e \in 1..(Len(route) - 1) : ~SameCoordinate(route[e], route[Len(route)])
        /\ matched[j].routeIndex = Len(route) - 1

(***************************************************************************)
(*                         The front-end (App)                             *)
(*                                                                         *)
(* A state of the model is a committed render of App.  A user event, a     *)
(* timer tick or the fetch resolution runs its handler and yields the next *)
(* render; the effects whose dependencies that render changed then run in  *)
(* one step (RunEffects), before any further event is handled.             *)
(***************************************************************************)
ShortRoute == 3
LongRoute == 60

RoutePoints(n) == [i \in 1..n |-> [lat |-> 0, lon |-> 0]]

\* Rides that rides.json may hold: a short ride with photos, a ride long
\* enough for a non-zero seek step, a one-point ride and a ride without
\* trackpoints.
ShortRide ==
    [id |-> "short", route |-> RoutePoints(ShortRoute),
     photos |-> << [filename |-> "a.jpg", routeIndex |-> 0],
                   [filename |-> "b.jpg", routeIndex |-> 1],
                   [filename |-> "c.jpg", routeIndex |-> ShortRoute - 1] >>]

LongRide == [id |-> "long", route |-> RoutePoints(LongRoute), photos |-> <<>>]

SingleRide ==
    [id |-> "single", route |-> RoutePoints(1),
     photos |-> << [filename |-> "d.jpg", routeIndex |-> 0] >>]

EmptyRide == [id |-> "empty", route |-> <<>>, photos |-> <<>>]

\* The lists of rides that rides.json may hold.
Payloads ==
    { <<>>,
      <<ShortRide>>,
      <<ShortRide, LongRide>>,
      <<SingleRide, ShortRide>>,
      <<ShortRide, SingleRide>>,
      <<EmptyRide, ShortRide>>,
      <<ShortRide, EmptyRide>> }

\* How the request for /data/rides.json can end.
FetchOutcomes ==
    {"ok", "http-error", "network-error", "invalid-json", "no-rides-key"}

MetricTypes == {"speed", "hr", "power", "elevation"}

\* The buttons MetricToggle renders.
MetricButtons == {"speed", "elevation"}

Keys == {" ", "ArrowLeft", "ArrowRight", "1", "2", "3", "4", "Escape"}

Targets == {"body", "input"}

Min2(a, b) == IF a <= b THEN a ELSE b

RouteLength(ride) == Len(ride[1].route)

(***************************************************************************)
(* Rendering.                                                              *)
(***************************************************************************)
\* App renders the main interface (not the loading or the empty screen).
MainShown == ~loading /\ Len(rides) > 0

DetailShown == MainShown /\ viewMode = "detail"

\* The map, the timeline and the metric toggle are rendered.
PanelShown == DetailShown /\ selectedRide # Absent

ModalShown == MainShown /\ selectedPhoto # Absent /\ selectedRide # Absent

\* TimelineScrubber reads fields of ride.route[currentIndex]: the render
\* throws when that point does not exist, and React unmounts the tree.
RenderThrows ==
    /\ PanelShown
    /\ ~(currentRouteIndex >= 0 /\ currentRouteIndex < RouteLength(selectedRide))

\* The page handles an event: it is mounted and its effects have run.
Responsive == ~RenderThrows /\ dirty = {}

\* The page under the modal's full-screen overlay can be clicked.
PageClickable == Responsive /\ MainShown /\ ~ModalShown

\* The effect dependencies an update changes.
Changed(ip, sr, vm, rd, idx) ==
    {d \in {"isPlaying", "selectedRide", "viewMode", "rides", "currentRouteIndex"} :
        \/ d = "isPlaying" /\ ip # isPlaying
        \/ d = "selectedRide" /\ sr # selectedRide
        \/ d = "viewMode" /\ vm # viewMode
        \/ d = "rides" /\ rd # rides
        \/ d = "currentRouteIndex" /\ idx # currentRouteIndex}

\* An update of the App state: the values of the next render.
Update(ip, sr, vm, rd, idx) ==
    /\ isPlaying' = ip
    /\ selectedRide' = sr
    /\ viewMode' = vm
    /\ rides' = rd
    /\ currentRouteIndex' = idx
    /\ dirty' = Changed(ip, sr, vm, rd, idx)

PipelineIdle == UNCHANGED <<files, photos, pos, stage, track, route, matched, failures>>

(***************************************************************************)
(* Keyboard shortcuts (useKeyboardShortcuts and App's callbacks).          *)
(***************************************************************************)
SeekDivisor == 60

SeekStep(ride) == RouteLength(ride) \div SeekDivisor

OnPlayPauseInAnyView ==
    IF selectedRide # Absent THEN ~isPlaying ELSE isPlaying

OnPlayPause ==
    IF viewMode = "detail" /\ selectedRide # Absent THEN ~isPlaying ELSE isPlaying

OnSeekForward ==
    IF selectedRide = Absent \/ viewMode # "detail"
    THEN currentRouteIndex
    ELSE Min2(currentRouteIndex + SeekStep(selectedRide),
              RouteLength(selectedRide) - 1)

OnSeekBackward ==
    IF selectedRide = Absent \/ viewMode # "detail"
    THEN currentRouteIndex
    ELSE Max2(currentRouteIndex - SeekStep(selectedRide), 0)

OnToggleMetricAnyView(metric) == metric

OnToggleMetric(metric) ==
    IF viewMode = "detail" THEN metric ELSE selectedMetric

MetricOfKey(key) ==
    CASE key = "1" -> "speed"
      [] key = "2" -> "hr"
      [] key = "3" -> "power"
      [] key = "4" -> "elevation"

(***************************************************************************)
(* The photo modal (PhotoModal and the callbacks App passes to it).        *)
(***************************************************************************)
\* Array.prototype.findIndex on the filename: the first position (from 0)
\* holding it, -1 when there is none.
FindIndex(list, filename) ==
    IF \E i \in 1..Len(list) : list[i].filename = filename
    THEN (CHOOSE i \in 1..Len(list) :
             /\ list[i].filename = filename
             /\ \A k \in 1..(i - 1) : list[k].filename # filename) - 1
    ELSE 0 - 1

CurrentIndex == FindIndex(selectedRide[1].photos, selectedPhoto[1].filename)

HasPrev == CurrentIndex > 0

HasNext == CurrentIndex < Len(selectedRide[1].photos) - 1

OnCloseKeepsPhoto == selectedPhoto

OnClose == Absent

OnNextFromZeroBased ==
    IF CurrentIndex < Len(selectedRide[1].photos) - 1
    THEN Some(selectedRide[1].photos[CurrentIndex + 1])
    ELSE selectedPhoto

OnNext ==
    IF CurrentIndex < Len(selectedRide[1].photos) - 1
    THEN Some(selectedRide[1].photos[CurrentIndex + 2])
    ELSE selectedPhoto

OnPrev ==
    IF CurrentIndex > 0
    THEN Some(selectedRide[1].photos[CurrentIndex])
    ELSE selectedPhoto

(***************************************************************************)
(* A key is pressed.  The window carries the listener of                   *)
(* useKeyboardShortcuts and, while the modal is shown, PhotoModal's.       *)
(***************************************************************************)
\* A listener that does not look at isModalOpen.
ShortcutHandlesUnderModal(target) == target # "input"

ShortcutHandles(target) == selectedPhoto = Absent /\ target # "input"

KeyDown(key, target) ==
    /\ Responsive
    /\ lastEvent' = key
    /\ LET global == ShortcutHandles(target)
           ip == IF global /\ key = " " THEN OnPlayPause ELSE isPlaying
           idx == IF global /\ key = "ArrowRight" THEN OnSeekForward
                  ELSE IF global /\ key = "ArrowLeft" THEN OnSeekBackward
                  ELSE currentRouteIndex
       IN  /\ Update(ip, selectedRide, viewMode, rides, idx)
           /\ selectedMetric' =
                 IF global /\ key \in {"1", "2", "3", "4"}
                 THEN OnToggleMetric(MetricOfKey(key))
                 ELSE selectedMetric
    /\ selectedPhoto' =
          IF ~ModalShown THEN selectedPhoto
          ELSE IF key = "Escape" THEN OnClose
          ELSE IF key = "ArrowLeft" /\ HasPrev THEN OnPrev
          ELSE IF key = "ArrowRight" /\ HasNext THEN OnNext
          ELSE selectedPhoto
    /\ UNCHANGED <<loading, fetchState, fetchCount, timer>>
    /\ PipelineIdle
    /\ UNCHANGED mapVars

(***************************************************************************)
(* Clicks on the page.                                                     *)
(***************************************************************************)
ClickOverview ==
    /\ PageClickable
    /\ lastEvent' = "overview"
    /\ Update(isPlaying, selectedRide, "dashboard", rides, currentRouteIndex)
    /\ UNCHANGED <<loading, selectedMetric, selectedPhoto, fetchState, fetchCount, timer>>
    /\ PipelineIdle
    /\ UNCHANGED mapVars

ClickDetail ==
    /\ PageClickable
    /\ selectedRide # Absent
    /\ lastEvent' = "detail"
    /\ Update(isPlaying, selectedRide, "detail", rides, currentRouteIndex)
    /\ UNCHANGED <<loading, selectedMetric, selectedPhoto, fetchState, fetchCount, timer>>
    /\ PipelineIdle
    /\ UNCHANGED mapVars

\* Dashboard's onRideClick, from a route on the map or from the legend.
\* A click that opens the detail view and drops the selection.
OnRideClickDeselects(ride, event) ==
    /\ lastEvent' = event
    /\ Update(isPlaying, Absent, "detail", rides, currentRouteIndex)
    /\ UNCHANGED <<loading, selectedMetric, selectedPhoto, fetchState, fetchCount, timer>>
    /\ PipelineIdle
    /\ UNCHANGED mapVars

OnRideClick(ride, event) ==
    /\ lastEvent' = event
    /\ Update(isPlaying, Some(ride), "detail", rides, currentRouteIndex)
    /\ UNCHANGED <<loading, selectedMetric, selectedPhoto, fetchState, fetchCount, timer>>
    /\ PipelineIdle
    /\ UNCHANGED mapVars

DashboardMapClick(i) ==
    /\ PageClickable
    /\ viewMode = "dashboard"
    /\ Len(rides[i].route) > 0
    /\ OnRideClick(rides[i], "map-route")

DashboardLegendClick(i) ==
    /\ PageClickable
    /\ viewMode = "dashboard"
    /\ OnRideClick(rides[i], "legend")

SidebarRideClick(i) ==
    /\ PageClickable
    /\ viewMode = "detail"
    /\ lastEvent' = "sidebar"
    /\ Update(isPlaying, Some(rides[i]), viewMode, rides, currentRouteIndex)
    /\ UNCHANGED <<loading, selectedMetric, selectedPhoto, fetchState, fetchCount, timer>>
    /\ PipelineIdle
    /\ UNCHANGED mapVars

\* The photo markers MapView draws for the selected ride.
MarkerShown(j) ==
    /\ PanelShown
    /\ RouteLength(selectedRide) > 0
    /\ j \in 1..Len(selectedRide[1].photos)
    /\ selectedRide[1].photos[j].routeIndex < RouteLength(selectedRide)

\* MapView takes onPhotoClick and never calls it; the marker has a
\* mouseenter listener only.
ClickPhotoMarker(j) ==
    /\ PageClickable
    /\ MarkerShown(j)
    /\ lastEvent' = "photo-marker"
    /\ UNCHANGED <<rides, loading, selectedRide, currentRouteIndex, selectedMetric,
                   selectedPhoto, isPlaying, viewMode, fetchState, fetchCount,
                   timer, dirty>>
    /\ PipelineIdle
    /\ UNCHANGED mapVars

\* TimelineScrubber: a click on the chart seeks to the point under it.
ScrubberSeek(i) ==
    /\ PageClickable
    /\ PanelShown
    /\ i \in 0..(RouteLength(selectedRide) - 1)
    /\ lastEvent' = "chart"
    /\ Update(isPlaying, selectedRide, viewMode, rides, i)
    /\ UNCHANGED <<loading, selectedMetric, selectedPhoto, fetchState, fetchCount, timer>>
    /\ PipelineIdle
    /\ UNCHANGED mapVars

ScrubberPlayPause ==
    /\ PageClickable
    /\ PanelShown
    /\ lastEvent' = "play-button"
    /\ Update(~isPlaying, selectedRide, viewMode, rides, currentRouteIndex)
    /\ UNCHANGED <<loading, selectedMetric, selectedPhoto, fetchState, fetchCount, timer>>
    /\ PipelineIdle
    /\ UNCHANGED mapVars

MetricToggleClick(type) ==
    /\ PageClickable
    /\ PanelShown
    /\ type \in MetricButtons
    /\ lastEvent' = "metric-button"
    /\ selectedMetric' = type
    /\ UNCHANGED <<rides, loading, selectedRide, currentRouteIndex, selectedPhoto,
                   isPlaying, viewMode, fetchState, fetchCount, timer, dirty>>
    /\ PipelineIdle
    /\ UNCHANGED mapVars

(***************************************************************************)
(* Clicks on the modal, which covers the page while it is shown.           *)
(***************************************************************************)
ModalClick(event, photo) ==
    /\ Responsive
    /\ ModalShown
    /\ lastEvent' = event
    /\ selectedPhoto' = photo
    /\ UNCHANGED <<rides, loading, selectedRide, currentRouteIndex, selectedMetric,
                   isPlaying, viewMode, fetchState, fetchCount, timer, dirty>>
    /\ PipelineIdle
    /\ UNCHANGED mapVars

ClickBackdrop == ModalClick("backdrop", OnClose)

\* The click on the close button also reaches the backdrop: onClose twice.
ClickCloseButton == ModalClick("close-button", OnClose)

\* The content stops the click from reaching the backdrop.
ClickModalContent == ModalClick("modal-content", selectedPhoto)

ClickPrevButton == ModalShown /\ HasPrev /\ ModalClick("prev-button", OnPrev)

ClickNextButton == ModalShown /\ HasNext /\ ModalClick("next-button", OnNext)

(***************************************************************************)
(* Playback: the interval set by the auto-play effect.  timer holds the    *)
(* route length the effect captured.  The callback's updater:              *)
(* prevIndex >= totalPoints - 1 stops playback and returns 0, otherwise    *)
(* prevIndex + 1.                                                          *)
(***************************************************************************)
TickAtEndPastLast == currentRouteIndex >= timer[1]

TickAtEnd == currentRouteIndex >= timer[1] - 1

TickIndex == IF TickAtEnd THEN 0 ELSE currentRouteIndex + 1

TickPlaying == IF TickAtEnd THEN FALSE ELSE isPlaying

Tick ==
    /\ Responsive
    /\ timer # Absent
    /\ lastEvent' = "tick"
    /\ Update(TickPlaying, selectedRide, viewMode, rides, TickIndex)
    /\ UNCHANGED <<loading, selectedMetric, selectedPhoto, fetchState, fetchCount,
                   timer>>
    /\ PipelineIdle
    /\ UNCHANGED mapVars

\* The render a tick causes is not the result of a user interaction, so
\* React runs its effects (the interval's cleanup among them) after the
\* paint.  The interval can fire once more before they run.
LateTick ==
    /\ ~RenderThrows
    /\ dirty # {}
    /\ lastEvent = "tick"
    /\ timer # Absent
    /\ lastEvent' = "late-tick"
    /\ isPlaying' = TickPlaying
    /\ currentRouteIndex' = TickIndex
    /\ dirty' = dirty \cup Changed(TickPlaying, selectedRide, viewMode, rides, TickIndex)
    /\ UNCHANGED <<rides, loading, selectedRide, selectedMetric, selectedPhoto,
                   viewMode, fetchState, fetchCount, timer>>
    /\ PipelineIdle
    /\ UNCHANGED mapVars

(***************************************************************************)
(* The request for /data/rides.json, issued by the mount effect.           *)
(***************************************************************************)
Responses ==
    {[kind |-> "ok", rides |-> Some(p)] : p \in Payloads}
        \cup {[kind |-> k, rides |-> Absent] : k \in FetchOutcomes \ {"ok"}}

\* What the outcome is recorded as: a payload with rides, one without, or
\* the failure.
Outcome(response) ==
    IF response.kind # "ok" THEN response.kind
    ELSE IF Len(response.rides[1]) > 0 THEN "rides" ELSE "no-rides"

HasRides(response) == response.rides # Absent /\ Len(response.rides[1]) > 0

FetchResolveCatchKeepsLoading(response) ==
    /\ fetchState = "pending"
    /\ fetchState' = Outcome(response)
    /\ loading' = IF response.kind = "ok" THEN FALSE ELSE loading
    /\ IF HasRides(response)
       THEN Update(isPlaying, Some(response.rides[1][1]), viewMode,
                   response.rides[1], currentRouteIndex)
       ELSE Update(isPlaying, selectedRide, viewMode, rides, currentRouteIndex)
    /\ UNCHANGED <<selectedMetric, selectedPhoto, fetchCount, timer, lastEvent>>
    /\ PipelineIdle
    /\ UNCHANGED mapVars

FetchResolve(response) ==
    /\ fetchState = "pending"
    /\ fetchState' = Outcome(response)
    /\ loading' = FALSE
    /\ IF HasRides(response)
       THEN Update(isPlaying, Some(response.rides[1][1]), viewMode,
                   response.rides[1], currentRouteIndex)
       ELSE Update(isPlaying, selectedRide, viewMode, rides, currentRouteIndex)
    /\ UNCHANGED <<selectedMetric, selectedPhoto, fetchCount, timer, lastEvent>>
    /\ PipelineIdle
    /\ UNCHANGED mapVars

(***************************************************************************)
(* The effects of App whose dependencies the last render changed, in the   *)
(* order of their declaration; their state updates are applied together.   *)
(***************************************************************************)
AutoPlayDue == dirty \cap {"isPlaying", "selectedRide"} # {}

ResetDue == "selectedRide" \in dirty

EnsureSelectedFires ==
    /\ dirty \cap {"viewMode", "selectedRide", "rides"} # {}
    /\ viewMode = "detail" /\ selectedRide = Absent /\ Len(rides) > 0

ClampFires ==
    /\ dirty \cap {"selectedRide", "currentRouteIndex"} # {}
    /\ selectedRide # Absent
    /\ currentRouteIndex >= RouteLength(selectedRide)

RunEffects ==
    /\ ~RenderThrows
    /\ dirty # {}
    /\ timer' = IF ~AutoPlayDue THEN timer
                ELSE IF isPlaying /\ selectedRide # Absent
                     THEN Some(RouteLength(selectedRide))
                     ELSE Absent
    /\ Update(IF ResetDue THEN FALSE ELSE isPlaying,
              IF EnsureSelectedFires THEN Some(rides[1]) ELSE selectedRide,
              viewMode, rides,
              IF ClampFires THEN Max2(0, RouteLength(selectedRide) - 1)
              ELSE IF ResetDue THEN 0
              ELSE currentRouteIndex)
    /\ UNCHANGED <<loading, selectedMetric, selectedPhoto, fetchState, fetchCount,
                   lastEvent>>
    /\ PipelineIdle
    /\ UNCHANGED mapVars

(***************************************************************************)
(* The App after it is mounted: the first render and its effects, the      *)
(* request in flight.                                                      *)
(***************************************************************************)
AppInit ==
    /\ files = <<>> /\ photos = <<>> /\ pos = 1 /\ stage = "idle"
    /\ track = <<>> /\ route = <<>> /\ matched = <<>>
    /\ rides = <<>> /\ failures = <<>>
    /\ loading = TRUE
    /\ selectedRide = Absent
    /\ currentRouteIndex = 0
    /\ selectedMetric = "speed"
    /\ selectedPhoto = Absent
    /\ isPlaying = FALSE
    /\ viewMode = "dashboard"
    /\ fetchState = "pending"
    /\ fetchCount = 1
    /\ timer = Absent
    /\ dirty = {}
    /\ lastEvent = "none"
    /\ MapNotDrawn

\* The photos of the selected ride and the points of its elevation chart.
MarkerIndices ==
    IF selectedRide = Absent THEN {} ELSE 1..Len(selectedRide[1].photos)

ChartIndices ==
    IF selectedRide = Absent THEN {} ELSE 0..(RouteLength(selectedRide) - 1)

AppNext ==
    \/ \E key \in Keys, target \in Targets : KeyDown(key, target)
    \/ ClickOverview
    \/ ClickDetail
    \/ \E i \in 1..Len(rides) : DashboardMapClick(i)
    \/ \E i \in 1..Len(rides) : DashboardLegendClick(i)
    \/ \E i \in 1..Len(rides) : SidebarRideClick(i)
    \/ \E j \in MarkerIndices : ClickPhotoMarker(j)
    \/ \E i \in ChartIndices : ScrubberSeek(i)
    \/ ScrubberPlayPause
    \/ \E type \in MetricTypes : MetricToggleClick(type)
    \/ Tick
    \/ LateTick
    \/ \E response \in Responses : FetchResolve(response)
    \/ RunEffects

AppSpec == AppInit /\ [][AppNext]_vars

\* Effects are flushed after every render.
FairAppSpec == AppSpec /\ WF_vars(RunEffects)

(***************************************************************************)
(*                    Properties of the front-end                          *)
(***************************************************************************)
\* C11: in the detail view a click on a photo marker of the selected ride
\* opens the photo modal for that photo: the click sets selectedPhoto to
\* the clicked photo.
C11_MarkerClickOpensModal ==
    [][\A j \in MarkerIndices :
          ClickPhotoMarker(j) => selectedPhoto' = Some(selectedRide[1].photos[j])]_vars

\* C12: in the detail view with a ride of n >= 1 route points selected and
\* the modal closed, Right Arrow moves the playhead to a strictly larger
\* index unless it is at n-1, Left Arrow to a strictly smaller index unless
\* it is at 0, and the resulting index is within [0, n-1].
C12_ArrowKeysSeek ==
    [][(/\ PanelShown
        /\ RouteLength(selectedRide) >= 1
        /\ selectedPhoto = Absent)
       => LET n == RouteLength(selectedRide)
          IN  /\ KeyDown("ArrowRight", "body") =>
                    /\ currentRouteIndex < n - 1 => currentRouteIndex' > currentRouteIndex
                    /\ currentRouteIndex' \in 0..(n - 1)
              /\ KeyDown("ArrowLeft", "body") =>
                    /\ currentRouteIndex > 0 => currentRouteIndex' < currentRouteIndex
                    /\ currentRouteIndex' \in 0..(n - 1)]_vars

\* C13: Space flips isPlaying when the detail view is shown, a ride is
\* selected, the modal is closed and the key target is not a text input;
\* in the dashboard view Space leaves isPlaying unchanged.
C13_SpaceTogglesPlayback ==
    [][/\ (/\ KeyDown(" ", "body")
           /\ viewMode = "detail"
           /\ selectedRide # Absent
           /\ selectedPhoto = Absent) => isPlaying' = ~isPlaying
       /\ \A target \in Targets :
             KeyDown(" ", target) /\ viewMode = "dashboard" => isPlaying' = isPlaying]_vars

\* Space has just started playback in the detail view.
C13_Witness ==
    /\ lastEvent = " "
    /\ viewMode = "detail"
    /\ selectedRide # Absent
    /\ isPlaying
    /\ dirty = {"isPlaying"}

\* C14: in the detail view with the modal closed the keys '1', '2', '3'
\* and '4' set selectedMetric to speed, hr, power and elevation; in the
\* dashboard view they leave selectedMetric unchanged.
C14_MetricKeys ==
    [][\A key \in {"1", "2", "3", "4"} :
          /\ (/\ KeyDown(key, "body")
              /\ viewMode = "detail"
              /\ selectedPhoto = Absent) =>
                 selectedMetric' =
                    (CASE key = "1" -> "speed" [] key = "2" -> "hr"
                       [] key = "3" -> "power" [] key = "4" -> "elevation")
          /\ \A target \in Targets :
                KeyDown(key, target) /\ viewMode = "dashboard" =>
                    selectedMetric' = selectedMetric]_vars

\* '3' has just been pressed in the detail view and power is selected.
C14_Witness ==
    /\ lastEvent = "3"
    /\ viewMode = "detail"
    /\ selectedMetric = "power"

\* C15: the metric toggle has, for each of the four MetricType values, a
\* button whose click selects it, and whenever the toggle is shown one of
\* its buttons is shown as selected (the button of selectedMetric).
C15_ToggleCoversEveryMetric ==
    PanelShown =>
        /\ \A m \in MetricTypes : \E type \in MetricButtons : type = m
        /\ \E type \in MetricButtons : type = selectedMetric

(***************************************************************************)
(* The photo modal on its own: PhotoModal mounted by App for a photo of    *)
(* the selected ride, as after setSelectedPhoto(photo).  The page under    *)
(* the overlay takes no clicks; keys, the modal's own clicks, the playback *)
(* interval and the effects go on.                                         *)
(***************************************************************************)
ModalInit ==
    /\ files = <<>> /\ photos = <<>> /\ pos = 1 /\ stage = "idle"
    /\ track = <<>> /\ route = <<>> /\ matched = <<>> /\ failures = <<>>
    /\ rides \in Payloads \ {<<>>}
    /\ loading = FALSE
    /\ fetchState = "rides"
    /\ fetchCount = 1
    /\ viewMode = "detail"
    /\ \E i \in 1..Len(rides) :
          /\ selectedRide = Some(rides[i])
          /\ selectedPhoto \in {Some(rides[i].photos[j]) : j \in 1..Len(rides[i].photos)}
          /\ currentRouteIndex \in 0..(Len(rides[i].route) - 1)
          /\ isPlaying \in BOOLEAN
          /\ timer = IF isPlaying THEN Some(Len(rides[i].route)) ELSE Absent
    /\ selectedMetric \in MetricTypes
    /\ dirty = {}
    /\ lastEvent = "photo"
    /\ MapNotDrawn

ModalNext ==
    \/ \E key \in Keys, target \in Targets : KeyDown(key, target)
    \/ ClickBackdrop
    \/ ClickCloseButton
    \/ ClickModalContent
    \/ ClickPrevButton
    \/ ClickNextButton
    \/ Tick
    \/ LateTick
    \/ RunEffects

ModalSpec == ModalInit /\ [][ModalNext]_vars

\* The position (from 1) of the shown photo in the selected ride's photos.
ShownPosition ==
    CHOOSE i \in 1..Len(selectedRide[1].photos) :
        selectedRide[1].photos[i] = selectedPhoto[1]

\* C16: with the modal open on the photo at position i of the selected
\* ride's m photos, Right Arrow or the next button shows position i+1 when
\* i is not the last, Left Arrow or the previous button position i-1 when
\* i is not the first; at the last photo Right Arrow and at the first Left
\* Arrow change nothing; the shown photo is always one of the ride's.
C16_ModalNavigation ==
    /\ [](ModalShown =>
             \E i \in 1..Len(selectedRide[1].photos) :
                 selectedRide[1].photos[i] = selectedPhoto[1])
    /\ [][ModalShown =>
             LET list == selectedRide[1].photos
                 i == ShownPosition
                 right == ClickNextButton \/ \E t \in Targets : KeyDown("ArrowRight", t)
                 left == ClickPrevButton \/ \E t \in Targets : KeyDown("ArrowLeft", t)
             IN  /\ right /\ i < Len(list) => selectedPhoto' = Some(list[i + 1])
                 /\ right /\ i = Len(list) => selectedPhoto' = selectedPhoto
                 /\ left /\ i > 1 => selectedPhoto' = Some(list[i - 1])
                 /\ left /\ i = 1 => selectedPhoto' = selectedPhoto]_vars

\* Right Arrow has moved the modal from the first photo of the short ride
\* to its second.
C16_Witness ==
    /\ ModalShown
    /\ lastEvent = "ArrowRight"
    /\ selectedRide = Some(ShortRide)
    /\ selectedPhoto = Some(ShortRide.photos[2])

\* C17: whenever the modal is open, Escape, a click on the backdrop or a
\* click on the close button sets selectedPhoto to null and leaves
\* selectedRide, currentRouteIndex, isPlaying, selectedMetric and viewMode
\* unchanged; a click inside the modal's content does not close it.
C17_EscapeClosesModal ==
    [][ModalShown =>
          /\ (\/ \E t \in Targets : KeyDown("Escape", t)
              \/ ClickBackdrop
              \/ ClickCloseButton) =>
                 /\ selectedPhoto' = Absent
                 /\ UNCHANGED <<selectedRide, currentRouteIndex, isPlaying,
                                selectedMetric, viewMode>>
          /\ ClickModalContent => selectedPhoto' = selectedPhoto]_vars

\* Escape has closed the modal while the ride was playing.
C17_Witness ==
    /\ lastEvent = "Escape"
    /\ selectedPhoto = Absent
    /\ selectedRide # Absent
    /\ viewMode = "detail"
    /\ isPlaying
    /\ dirty = {}

C19_PlayheadValid ==
    PanelShown /\ RouteLength(selectedRide) >= 1 =>
        /\ 0 <= currentRouteIndex
        /\ currentRouteIndex <= RouteLength(selectedRide) - 1

\* The selected ride has just been changed from the sidebar, the dashboard
\* map or the dashboard legend; the effects of that render are still due.
RideJustChanged ==
    /\ lastEvent \in {"sidebar", "map-route", "legend"}
    /\ "selectedRide" \in dirty

\* C20: whenever selectedRide changes to a different ride, once the effects
\* have settled currentRouteIndex is 0 and isPlaying is false, whatever
\* they were before the change.
C20_ResetOnRideChange ==
    RideJustChanged ~> (dirty = {} /\ currentRouteIndex = 0 /\ ~isPlaying)

\* A tick of the playback interval, on time or late.
AnyTick == Tick \/ LateTick

\* C21: while isPlaying is true for a ride with n route points, a tick
\* moves the playhead from i to i+1 and leaves isPlaying true when
\* i < n-1; at i >= n-1 it sets the playhead to 0 and isPlaying to false.
C21_PlaybackStep ==
    [][isPlaying /\ selectedRide # Absent /\ AnyTick =>
          LET n == RouteLength(selectedRide)
              i == currentRouteIndex
          IN  /\ i < n - 1 => currentRouteIndex' = i + 1 /\ isPlaying'
              /\ i >= n - 1 => currentRouteIndex' = 0 /\ ~isPlaying']_vars

\* The tick at the last point of the short ride has just stopped playback
\* and returned the playhead to 0.
C21_Witness ==
    /\ lastEvent = "tick"
    /\ selectedRide = Some(ShortRide)
    /\ currentRouteIndex = 0
    /\ ~isPlaying
    /\ dirty = {"isPlaying", "currentRouteIndex"}

(***************************************************************************)
(* Playback left alone: playback has just been started in the detail view  *)
(* for a ride that can be rendered, and no user event follows.  The        *)
(* interval keeps firing while it exists and effects are flushed after     *)
(* every render.                                                           *)
(***************************************************************************)
PlaybackInit ==
    /\ files = <<>> /\ photos = <<>> /\ pos = 1 /\ stage = "idle"
    /\ track = <<>> /\ route = <<>> /\ matched = <<>> /\ failures = <<>>
    /\ rides \in Payloads \ {<<>>}
    /\ loading = FALSE
    /\ fetchState = "rides"
    /\ fetchCount = 1
    /\ viewMode = "detail"
    /\ selectedPhoto = Absent
    /\ \E i \in 1..Len(rides) :
          /\ selectedRide = Some(rides[i])
          /\ currentRouteIndex \in 0..(Len(rides[i].route) - 1)
          /\ timer = Some(Len(rides[i].route))
    /\ isPlaying = TRUE
    /\ selectedMetric \in MetricTypes
    /\ dirty = {}
    /\ lastEvent \in {" ", "play-button"}
    /\ MapNotDrawn

PlaybackNext ==
    \/ Tick
    \/ LateTick
    \/ RunEffects

PlaybackSpec ==
    /\ PlaybackInit
    /\ [][PlaybackNext]_vars
    /\ WF_vars(Tick)
    /\ WF_vars(RunEffects)

\* C22: once isPlaying is true and no user event follows, isPlaying
\* eventually becomes false with the playhead at 0, and after playback has
\* stopped no tick changes the playhead.
C22_PlaybackTerminates ==
    /\ isPlaying ~> (~isPlaying /\ currentRouteIndex = 0)
    /\ [][~isPlaying /\ AnyTick => currentRouteIndex' = currentRouteIndex]_vars

\* A key of the global shortcuts is pressed.
ShortcutKeyDown ==
    \E key \in {" ", "ArrowLeft", "ArrowRight", "1", "2", "3", "4"}, t \in Targets :
        KeyDown(key, t)

\* An arrow key is pressed.
ArrowKeyDown ==
    \E key \in {"ArrowLeft", "ArrowRight"}, t \in Targets : KeyDown(key, t)

\* C23: while the photo modal is open (selectedPhoto non-null) a press of
\* Space, ArrowLeft, ArrowRight or 1-4 leaves isPlaying, currentRouteIndex
\* and selectedMetric unchanged, so one arrow press never both navigates
\* photos and seeks the playhead; while the modal is closed an arrow press
\* never changes selectedPhoto.
C23_ModalBlocksShortcuts ==
    [][/\ selectedPhoto # Absent /\ ShortcutKeyDown =>
              UNCHANGED <<isPlaying, currentRouteIndex, selectedMetric>>
       /\ selectedPhoto = Absent /\ ArrowKeyDown =>
              selectedPhoto' = selectedPhoto]_vars

\* Left Arrow has moved the modal from the second photo of the short ride
\* to its first while the playhead stayed on the last point.
C23_Witness ==
    /\ ModalShown
    /\ lastEvent = "ArrowLeft"
    /\ selectedRide = Some(ShortRide)
    /\ selectedPhoto = Some(ShortRide.photos[1])
    /\ currentRouteIndex = ShortRoute - 1
    /\ ~isPlaying

\* C24: playback runs only in the detail view: whenever viewMode is
\* 'dashboard', isPlaying is false and no timer tick changes
\* currentRouteIndex, also after playback was started in the detail view
\* and the view switched to Overview.
C24_PlaybackOnlyInDetail ==
    /\ [](viewMode = "dashboard" => ~isPlaying)
    /\ [][viewMode = "dashboard" /\ AnyTick =>
             currentRouteIndex' = currentRouteIndex]_vars

MaxGeoPts == 3
PairPts == 1

Null == [kind |-> "null", v |-> 0]
NaN == [kind |-> "nan", v |-> 0]
Num(n) == [kind |-> "num", v |-> n]

\* The points a route may hold: two good ones (one on the limits), and one
\* for each way a coordinate can be bad.
GeoPoints ==
    { [lat |-> Num(48), lon |-> Num(0 - 123)],
      [lat |-> Num(90), lon |-> Num(180)],
      [lat |-> Null, lon |-> Num(0 - 123)],
      [lat |-> Num(48), lon |-> NaN],
      [lat |-> Num(91), lon |-> Num(0 - 123)],
      [lat |-> Num(48), lon |-> Num(0 - 181)] }

RECURSIVE SeqsUpTo(_, _)
SeqsUpTo(S, n) ==
    IF n = 0 THEN {<<>>}
    ELSE LET shorter == SeqsUpTo(S, n - 1)
         IN  shorter \cup {Append(s, x) : s \in {t \in shorter : Len(t) = n - 1}, x \in S}

\* A ride with the given route and one photo matched to point photoIndex.
GeoRide(id, points, photoIndex) ==
    [id |-> id, route |-> points,
     photos |-> << [filename |-> "p.jpg", routeIndex |-> photoIndex] >>]

\* The filter of the bounds effects: p.lat != null && p.lon != null &&
\* !isNaN(p.lat) && !isNaN(p.lon).
BoundsPoint(p) ==
    /\ p.lat.kind # "null" /\ p.lon.kind # "null"
    /\ p.lat.kind # "nan" /\ p.lon.kind # "nan"

\* The filter of validRoute: the same and the ranges of lat and lon.
ValidPoint(p) ==
    /\ p.lat.kind # "null" /\ p.lon.kind # "null"
    /\ p.lat.kind # "nan" /\ p.lon.kind # "nan"
    /\ p.lat.v >= 0 - 90 /\ p.lat.v <= 90
    /\ p.lon.v >= 0 - 180 /\ p.lon.v <= 180

SetMin(S) == CHOOSE x \in S : \A y \in S : x <= y

SetMax(S) == CHOOSE x \in S : \A y \in S : x >= y

\* bounds: [[min lon, min lat], [max lon, max lat]] of the given points.
BoundsOf(points) ==
    LET lats == {points[i].lat.v : i \in 1..Len(points)}
        lons == {points[i].lon.v : i \in 1..Len(points)}
    IN  << <<SetMin(lons), SetMin(lats)>>, <<SetMax(lons), SetMax(lats)>> >>

\* The line layer and the start and end markers of one route; nothing for
\* a route without a valid point.
RouteLayer(ride) ==
    LET validRoute == SelectSeq(ride.route, ValidPoint)
    IN  IF Len(validRoute) = 0 THEN Absent
        ELSE Some([coordinates |->
                       [i \in 1..Len(validRoute) |->
                           <<validRoute[i].lon, validRoute[i].lat>>],
                   startPoint |-> validRoute[1],
                   endPoint |-> validRoute[Len(validRoute)]])

\* The points of the photo markers: ride.route[photo.routeIndex] where it
\* exists.
PhotoMarkerPoints(ride) ==
    LET placed == SelectSeq(ride.photos,
                            LAMBDA ph : ph.routeIndex >= 0
                                        /\ ph.routeIndex < Len(ride.route))
    IN  [j \in 1..Len(placed) |-> ride.route[placed[j].routeIndex + 1]]

\* MapView renders the selected ride: a placeholder without a route or
\* without a valid point, else the line, the start and end markers, the
\* current-position marker and the photo markers.
MapViewRender ==
    /\ PanelShown /\ Responsive
    /\ LET ride == selectedRide[1]
           layer == RouteLayer(ride)
       IN  drawn' =
              IF Len(ride.route) = 0 \/ layer = Absent
              THEN [view |-> "detail", layers |-> <<Absent>>,
                    position |-> Absent, photoMarkers |-> <<>>]
              ELSE [view |-> "detail", layers |-> <<layer>>,
                    position |->
                        IF currentRouteIndex >= 0
                           /\ currentRouteIndex < Len(ride.route)
                        THEN Some(ride.route[currentRouteIndex + 1])
                        ELSE Absent,
                    photoMarkers |-> PhotoMarkerPoints(ride)]
    /\ bounds' = IF drawn.view = "detail" THEN bounds ELSE Absent
    /\ UNCHANGED appVars
    /\ UNCHANGED <<rides>>
    /\ PipelineIdle

\* The timeout of MapView's bounds effect: with a mounted map, fitBounds
\* gets the bounds of the points that pass the effect's filter.
MapViewFitBounds ==
    /\ drawn.view = "detail"
    /\ drawn.layers # <<Absent>>
    /\ LET validPoints == SelectSeq(selectedRide[1].route, BoundsPoint)
       IN  /\ Len(validPoints) > 0
           /\ bounds' = Some(BoundsOf(validPoints))
    /\ UNCHANGED drawn
    /\ UNCHANGED appVars
    /\ UNCHANGED <<rides>>
    /\ PipelineIdle

\* Dashboard renders every ride whose route has a valid point.
DashboardRender ==
    /\ MainShown /\ viewMode = "dashboard" /\ Responsive
    /\ drawn' = [view |-> "dashboard",
                 layers |-> [i \in 1..Len(rides) |-> RouteLayer(rides[i])],
                 position |-> Absent, photoMarkers |-> <<>>]
    /\ bounds' = IF drawn.view = "dashboard" THEN bounds ELSE Absent
    /\ UNCHANGED appVars
    /\ UNCHANGED <<rides>>
    /\ PipelineIdle

\* rides.flatMap(ride => ride.route.filter(...)) of the bounds effect.
RECURSIVE AllBoundsPoints(_)
AllBoundsPoints(rs) ==
    IF rs = <<>> THEN <<>>
    ELSE SelectSeq(Head(rs).route, BoundsPoint) \o AllBoundsPoints(Tail(rs))

\* The timeout of Dashboard's bounds effect.
DashboardFitBounds ==
    /\ drawn.view = "dashboard"
    /\ LET allPoints == AllBoundsPoints(rides)
       IN  /\ Len(allPoints) > 0
           /\ bounds' = Some(BoundsOf(allPoints))
    /\ UNCHANGED drawn
    /\ UNCHANGED appVars
    /\ UNCHANGED <<rides>>
    /\ PipelineIdle

\* The routes of the geometry check: every route of up to MaxGeoPts points
\* for a single ride, every pair of routes of up to PairPts points for two.
GeoPayloads ==
    {<<GeoRide("one", r, k)>> :
        r \in SeqsUpTo(GeoPoints, MaxGeoPts) \ {<<>>}, k \in {0, MaxGeoPts - 1}}
    \cup {<<GeoRide("one", r, 0), GeoRide("two", q, 0)>> :
            r \in SeqsUpTo(GeoPoints, PairPts), q \in SeqsUpTo(GeoPoints, PairPts)}

\* The App with its rides loaded, in the dashboard or in the detail view of
\* one of them with the playhead on one of its points.
GeoInit ==
    /\ files = <<>> /\ photos = <<>> /\ pos = 1 /\ stage = "idle"
    /\ track = <<>> /\ route = <<>> /\ matched = <<>> /\ failures = <<>>
    /\ rides \in GeoPayloads
    /\ loading = FALSE
    /\ fetchState = "rides"
    /\ fetchCount = 1
    /\ selectedPhoto = Absent
    /\ isPlaying = FALSE
    /\ timer = Absent
    /\ selectedMetric = "speed"
    /\ dirty = {}
    /\ \E i \in 1..Len(rides) :
          /\ selectedRide = Some(rides[i])
          /\ \/ /\ viewMode = "dashboard"
                /\ currentRouteIndex = 0
                /\ lastEvent = "overview"
             \/ /\ viewMode = "detail"
                /\ currentRouteIndex \in 0..(Len(rides[i].route) - 1)
                /\ lastEvent = "chart"
    /\ MapNotDrawn

GeoNext ==
    \/ MapViewRender
    \/ MapViewFitBounds
    \/ DashboardRender
    \/ DashboardFitBounds

GeoSpec == GeoInit /\ [][GeoNext]_vars

\* The test a point must pass to be part of the geometry: lat and lon
\* non-null, non-NaN, lat in [-90, 90] and lon in [-180, 180].
GoodPoint(p) ==
    /\ p.lat.kind = "num" /\ p.lon.kind = "num"
    /\ 0 - 90 <= p.lat.v /\ p.lat.v <= 90
    /\ 0 - 180 <= p.lon.v /\ p.lon.v <= 180

GoodRoute(ride) == SelectSeq(ride.route, GoodPoint)

RECURSIVE AllGoodPoints(_)
AllGoodPoints(rs) ==
    IF rs = <<>> THEN <<>> ELSE GoodRoute(Head(rs)) \o AllGoodPoints(Tail(rs))

\* The layer drawn for a ride is the line through its good points in their
\* order with the markers on the first and the last, or nothing.
LayerIsOfGoodPoints(layer, ride) ==
    LET good == GoodRoute(ride)
    IN  IF Len(good) = 0 THEN layer = Absent
        ELSE /\ layer # Absent
             /\ layer[1].coordinates =
                    [i \in 1..Len(good) |-> <<good[i].lon, good[i].lat>>]
             /\ layer[1].startPoint = good[1]
             /\ layer[1].endPoint = good[Len(good)]

\* The bounds handed to fitBounds are those of the good points.
BoundsAreOfGoodPoints(points) ==
    bounds # Absent => Len(points) > 0 /\ bounds = Some(BoundsOf(points))

\* C26: in MapView and in Dashboard the route line, the start and end
\* markers and the fitted bounds are computed from exactly the route points
\* whose lat and lon are non-null, non-NaN and in range, in their order; a
\* ride with no such point draws nothing; the current-position marker and
\* the photo markers are never placed at a point that fails the test.
C26_InvalidCoordinatesExcluded ==
    /\ drawn.view = "detail" =>
          /\ LayerIsOfGoodPoints(drawn.layers[1], selectedRide[1])
          /\ BoundsAreOfGoodPoints(GoodRoute(selectedRide[1]))
          /\ drawn.position # Absent => GoodPoint(drawn.position[1])
          /\ \A j \in 1..Len(drawn.photoMarkers) : GoodPoint(drawn.photoMarkers[j])
    /\ drawn.view = "dashboard" =>
          /\ \A i \in 1..Len(rides) : LayerIsOfGoodPoints(drawn.layers[i], rides[i])
          /\ BoundsAreOfGoodPoints(AllGoodPoints(rides))

====
